---- MODULE Spec2Model ----
(***************************************************************************)
(* Packet tracer API (app.js): DNS resolution, longest-prefix-match        *)
(* routing, TTL handling and ordered firewall rules, composed by the       *)
(* POST /trace handler into one hop-by-hop trace.                          *)
(*                                                                         *)
(* Strings are TLA+ strings; template literals are built with \o and       *)
(* ToString.  32-bit words are kept as four base-256 digits (most          *)
(* significant first), so that <<, ~, & and >>> keep their 32-bit width.   *)
(***************************************************************************)
EXTENDS Integers, Sequences, FiniteSets, TLC

(***************************************************************************)
(* Bounds of the model.                                                    *)
(***************************************************************************)
MaxRecords == 2
MaxRoutes == 2
MaxRules == 2
MaxTtl == 2

(***************************************************************************)
(* Strings: split(".") and Number().                                       *)
(***************************************************************************)
RECURSIVE Join(_)
Join(parts) ==
  IF Len(parts) = 1 THEN parts[1]
  ELSE parts[1] \o "." \o Join(Tail(parts))

\* The dotted quads that occur in requests and configuration files.
Quads ==
  { <<0, 0, 0, 0>>, <<10, 0, 0, 0>>, <<10, 0, 0, 1>>, <<10, 0, 0, 10>>,
    <<10, 255, 0, 1>>, <<10, 0, 0, 2>>, <<172, 16, 5, 9>>,
    <<192, 168, 1, 0>>, <<192, 168, 1, 1>>, <<192, 168, 1, 7>>,
    <<192, 168, 1, 50>>, <<127, 255, 255, 255>>, <<128, 0, 0, 0>>,
    <<255, 255, 255, 255>> }

\* The host names that occur in requests and configuration files.
HostParts ==
  { <<"example", "com">>, <<"www", "example", "com">>,
    <<"mail", "example", "com">>, <<"unknown", "site">> }

QuadParts == { [i \in 1..4 |-> ToString(q[i])] : q \in Quads }

Parts == QuadParts \cup HostParts

Strings == { Join(p) : p \in Parts }

\* The "network/prefix" strings of the configuration files, as the two
\* pieces around the slash.
CidrParts ==
  { <<"0.0.0.0", "0">>, <<"10.0.0.0", "8">>, <<"10.0.0.0", "24">>,
    <<"192.168.1.0", "24">>, <<"10.0.0.10", "32">> }

Cidrs == { c[1] \o "/" \o c[2] : c \in CidrParts }

\* Every dotted quad as a network, with every prefix length.
Prefixes == 0..32

NetworkParts == { <<Join(q), ToString(p)>> : q \in QuadParts, p \in Prefixes }

Networks == { c[1] \o "/" \o c[2] : c \in NetworkParts }

Labels ==
  UNION { { p[i] : i \in 1..Len(p) } : p \in Parts } \cup { c[2] : c \in CidrParts \cup NetworkParts }

NaN == -1

\* Number(octet): the value of a decimal label, NaN for any other label.
NumberTable ==
  [ l \in Labels |->
      IF \E n \in 0..255 : ToString(n) = l
      THEN CHOOSE n \in 0..255 : ToString(n) = l
      ELSE NaN ]

Number(l) == NumberTable[l]

\* ip.split("."): the labels between the dots.
SplitTable == [ s \in Strings |-> CHOOSE p \in Parts : Join(p) = s ]

Split(s) == SplitTable[s]

\* cidr.split("/"): the network and the prefix string.
SplitSlashTable ==
  [ s \in Cidrs \cup Networks |->
      CHOOSE c \in CidrParts \cup NetworkParts : c[1] \o "/" \o c[2] = s ]

SplitSlash(s) == SplitSlashTable[s]

(***************************************************************************)
(* IP helpers.  A word is <<b1, b2, b3, b4>>, value b1*2^24 + ... + b4.    *)
(***************************************************************************)
Zero == <<0, 0, 0, 0>>

\* acc << 8 on 32 bits: the top byte falls off.
Shl8(w) == <<w[2], w[3], w[4], 0>>

\* w + n modulo 2^32, for 0 <= n.
AddWord(w, n) ==
  LET s4 == w[4] + n
      s3 == w[3] + (s4 \div 256)
      s2 == w[2] + (s3 \div 256)
      s1 == w[1] + (s2 \div 256)
  IN  <<s1 % 256, s2 % 256, s3 % 256, s4 % 256>>

\* The reduce of ipToInt.  acc is a word, or <<>> when it is NaN;
\* NaN << 8 is 0, (x + NaN) is NaN and NaN >>> 0 is 0.
ipToInt(ip) ==
  LET parts == Split(ip)
      acc[i \in 0..Len(parts)] ==
        IF i = 0 THEN Zero
        ELSE LET octet == Number(parts[i])
                 shifted == IF acc[i - 1] = <<>> THEN Zero ELSE Shl8(acc[i - 1])
             IN  IF octet = NaN THEN <<>> ELSE AddWord(shifted, octet)
  IN  IF acc[Len(parts)] = <<>> THEN Zero ELSE acc[Len(parts)]

\* Byte i (1 = most significant) of ~0 << k, for 0 <= k <= 31.
OnesShlByte(i, k) ==
  LET low == 32 - 8 * i
  IN  IF k <= low THEN 255
      ELSE IF k >= low + 8 THEN 0
      ELSE 256 - 2 ^ (k - low)

\* cidrToMask without the case of prefix 0: ~0 << 32 is ~0 << 0.
cidrToMaskShiftOnly(prefix) ==
  [ i \in 1..4 |-> OnesShlByte(i, (32 - prefix) % 32) ]

\* The shift count of << is taken modulo 32.
cidrToMask(prefix) ==
  IF prefix = 0 THEN Zero
  ELSE [ i \in 1..4 |-> OnesShlByte(i, (32 - prefix) % 32) ]

AndByte(a, b) ==
  LET bit(x, i) == (x \div (2 ^ i)) % 2
      Sum[i \in 0..8] ==
        IF i = 8 THEN 0 ELSE (2 ^ i) * bit(a, i) * bit(b, i) + Sum[i + 1]
  IN  Sum[0]

AndWord(v, w) == [ i \in 1..4 |-> AndByte(v[i], w[i]) ]

ipInCidr(ip, cidr) ==
  LET network == SplitSlash(cidr)[1]
      prefixStr == SplitSlash(cidr)[2]
      prefix == Number(prefixStr)
      ipInt == ipToInt(ip)
      netInt == ipToInt(network)
      mask == cidrToMask(prefix)
  IN  AndWord(ipInt, mask) = AndWord(netInt, mask)

\* ipInCidr on every address and cidr of the model, computed once.
ipInCidrTable == [ ip \in Strings |-> [ cidr \in Cidrs |-> ipInCidr(ip, cidr) ] ]

InCidr(ip, cidr) == ipInCidrTable[ip][cidr]

(***************************************************************************)
(* Configuration files.  A field that is absent is the empty string.       *)
(***************************************************************************)
NoFields ==
  [ name |-> "", hostname |-> "", host |-> "", type |-> "", address |-> "",
    ip |-> "", value |-> "", alias |-> "", target |-> "", cname |-> "" ]

Rec(fields) == [ f \in DOMAIN NoFields |->
                   IF f \in DOMAIN fields THEN fields[f] ELSE NoFields[f] ]

\* The DNS records configuration files are made of.
DnsUniverse ==
  { Rec([type |-> "A", name |-> "example.com", address |-> "10.0.0.10"]),
    Rec([type |-> "CNAME", name |-> "www.example.com", alias |-> "example.com"]),
    Rec([type |-> "CNAME", name |-> "mail.example.com", target |-> "www.example.com"]),
    Rec([name |-> "example.com", cname |-> "www.example.com"]),
    Rec([hostname |-> "www.example.com", ip |-> "192.168.1.7"]),
    Rec([type |-> "CNAME", host |-> "mail.example.com", value |-> "example.com"]),
    Rec([type |-> "A", name |-> "mail.example.com"]),
    Rec([type |-> "MX", name |-> "mail.example.com"]),
    Rec([type |-> "CNAME", name |-> "www.example.com", alias |-> "www.example.com"]),
    Rec([type |-> "CNAME", name |-> "example.com"]) }

\* The routes configuration files are made of.
RouteUniverse ==
  { [cidr |-> "10.0.0.0/24", nextHop |-> "10.0.0.1", interface |-> "eth0",
     routerName |-> "Router-1"],
    [cidr |-> "0.0.0.0/0", nextHop |-> "192.168.1.1", interface |-> "eth1",
     routerName |-> "Default-Gateway"],
    [cidr |-> "10.0.0.0/8", nextHop |-> "10.255.0.1", interface |-> "eth2",
     routerName |-> ""],
    [cidr |-> "10.0.0.0/24", nextHop |-> "10.0.0.2", interface |-> "eth3",
     routerName |-> "Router-B"] }

\* The firewall rules configuration files are made of.
RuleUniverse ==
  { [id |-> 1, action |-> "deny", protocol |-> "TCP", source |-> "0.0.0.0/0",
     destPortRange |-> <<22, 22>>],
    [id |-> 2, action |-> "allow", protocol |-> "TCP", source |-> "0.0.0.0/0",
     destPortRange |-> <<0, 65535>>],
    [id |-> 3, action |-> "DENY", protocol |-> "any", source |-> "192.168.1.0/24",
     destPortRange |-> <<80, 443>>],
    [id |-> 4, action |-> "allow", protocol |-> "", source |-> "10.0.0.0/8",
     destPortRange |-> <<0, 65535>>],
    [id |-> 5, action |-> "Deny", protocol |-> "udp", source |-> "0.0.0.0/0",
     destPortRange |-> <<0, 65535>>] }

\* The lists of at most n entries of S, no entry listed twice.
SeqsUpTo(S, n) ==
  UNION { { q \in [1..k -> S] : \A i, j \in 1..k : q[i] = q[j] => i = j }
          : k \in 0..n }

\* dnsConfig.json, routesConfig.json and firewallConfig.json of the readme.
SampleDns ==
  << Rec([type |-> "A", name |-> "example.com", address |-> "10.0.0.10"]),
     Rec([type |-> "CNAME", name |-> "www.example.com", alias |-> "example.com"]) >>

\* An alias of an alias of a name that has an address.
ChainDns ==
  << Rec([type |-> "CNAME", name |-> "mail.example.com",
          target |-> "www.example.com"]),
     Rec([type |-> "CNAME", name |-> "www.example.com", alias |-> "example.com"]),
     Rec([type |-> "A", name |-> "example.com", address |-> "10.0.0.10"]) >>

SampleRoutes ==
  << [cidr |-> "10.0.0.0/24", nextHop |-> "10.0.0.1", interface |-> "eth0",
      routerName |-> "Router-1"],
     [cidr |-> "0.0.0.0/0", nextHop |-> "192.168.1.1", interface |-> "eth1",
      routerName |-> "Default-Gateway"] >>

SampleRules ==
  << [id |-> 1, action |-> "deny", protocol |-> "TCP", source |-> "0.0.0.0/0",
      destPortRange |-> <<22, 22>>],
     [id |-> 2, action |-> "allow", protocol |-> "TCP", source |-> "0.0.0.0/0",
      destPortRange |-> <<0, 65535>>] >>

(***************************************************************************)
(* Requests.  A JSON value of a numeric field is [type, val]; a string     *)
(* field that is missing is the empty string.                              *)
(***************************************************************************)
Num(n) == [type |-> "number", val |-> n]

Undefined == [type |-> "undefined", val |-> 0]

Bodies ==
  [ sourceIp : {"192.168.1.50", "10.0.0.1", ""},
    destination : {"10.0.0.10", "172.16.5.9", "www.example.com", "example.com",
                   "mail.example.com", ""},
    destPort : { Num(22), Num(80), Undefined },
    protocol : {"TCP", "udp", ""},
    ttl : { Num(t) : t \in -1..MaxTtl } \cup { Undefined } ]

NoBody ==
  [ sourceIp |-> "", destination |-> "", destPort |-> Undefined,
    protocol |-> "", ttl |-> Undefined ]

NoPacket ==
  [ sourceIp |-> "", destIp |-> "", destPort |-> 0, protocol |-> "", ttl |-> 0 ]

\* No response has been kept yet.
NoResponse == [ body |-> NoBody, response |-> <<>> ]

\* first is the history of the server as a client keeps it: a request it
\* sent and the trace it got back.
VARIABLES dnsRecords, routesConfig, firewallConfig,
          pc, body, packet, trace, current, visited, currentHop, route, allowed,
          status, response, first

config == <<dnsRecords, routesConfig, firewallConfig>>

vars == <<dnsRecords, routesConfig, firewallConfig,
          pc, body, packet, trace, current, visited, currentHop, route, allowed,
          status, response, first>>

Entry(location, action) == [location |-> location, action |-> action]

(***************************************************************************)
(* DNS resolver.                                                           *)
(***************************************************************************)
\* a || b || c on strings: the first that is not empty.
Or3(a, b, c) == IF a # "" THEN a ELSE IF b # "" THEN b ELSE c

\* The predicate of dnsRecords.find with the comparison of hostname left out.
RecordMatchesAnyHostname(r, cur) ==
  \/ r.name # "" /\ r.name = cur
  \/ r.hostname # ""
  \/ r.host # "" /\ r.host = cur

\* The predicate of dnsRecords.find.
RecordMatches(r, cur) ==
  \/ r.name # "" /\ r.name = cur
  \/ r.hostname # "" /\ r.hostname = cur
  \/ r.host # "" /\ r.host = cur

\* dnsRecords.find that keeps the last record that matches.
FindRecordLast(cur) ==
  LET hits == { i \in 1..Len(dnsRecords) : RecordMatches(dnsRecords[i], cur) }
  IN  IF hits = {} THEN 0 ELSE CHOOSE i \in hits : \A j \in hits : i >= j

\* dnsRecords.find: the index of the first record that matches, 0 if none.
FindRecord(cur) ==
  LET hits == { i \in 1..Len(dnsRecords) : RecordMatches(dnsRecords[i], cur) }
  IN  IF hits = {} THEN 0 ELSE CHOOSE i \in hits : \A j \in hits : i <= j

\* The loop entry naming the name the request asked for.
LoopReturnHostname(hostname, cur, vis, tr) ==
  [ returned |-> TRUE, result |-> "", current |-> cur, visited |-> vis,
    trace |-> Append(tr, Entry("DNS Resolver",
                               "CNAME loop detected for " \o hostname)) ]

\* The visited check at the top of the loop, when it fires: the loop entry
\* and return null.
LoopReturn(hostname, cur, vis, tr) ==
  [ returned |-> TRUE, result |-> "", current |-> cur, visited |-> vis,
    trace |-> Append(tr, Entry("DNS Resolver",
                               "CNAME loop detected for " \o cur)) ]

\* A visited check that never fires.
VisitedHasNever(vis, cur) == FALSE

\* visited.has(current)
VisitedHas(vis, cur) == cur \in vis

\* The alias entry written after current has moved on to the alias.
CnameActionAfterMove(cur, alias) == "CNAME: " \o alias \o " → " \o alias

\* The action of the alias entry.
CnameAction(cur, alias) == "CNAME: " \o cur \o " → " \o alias

\* What one pass of the while loop of resolveHostname does.  returned tells
\* whether the pass ends in a return, result is the value returned ("" for
\* null).
resolveHostname(hostname, cur, vis, tr) ==
  LET Return(res, action) ==
        [ returned |-> TRUE, result |-> res, current |-> cur,
          visited |-> vis \cup {cur},
          trace |-> Append(tr, Entry("DNS Resolver", action)) ]
      i == FindRecord(cur)
      record == dnsRecords[i]
      addr == Or3(record.address, record.ip, record.value)
      alias == Or3(record.alias, record.target, record.cname)
  IN  IF VisitedHas(vis, cur)
      THEN LoopReturn(hostname, cur, vis, tr)
      ELSE IF i = 0
      THEN Return("", "NXDOMAIN: " \o cur \o " not found")
      ELSE IF record.type = "A" \/ record.address # "" \/ record.ip # ""
              \/ record.value # ""
      THEN IF addr = ""
           THEN Return("", "Malformed A record for " \o cur)
           ELSE Return(addr, "Resolved " \o hostname \o " to " \o addr)
      ELSE IF record.type = "CNAME" \/ record.alias # "" \/ record.target # ""
              \/ record.cname # ""
      THEN IF alias = ""
           THEN Return("", "Malformed CNAME record for " \o cur)
           ELSE [ returned |-> FALSE, result |-> "", current |-> alias,
                  visited |-> vis \cup {cur},
                  trace |-> Append(tr, Entry("DNS Resolver",
                                                   CnameAction(cur, alias))) ]
      ELSE Return("", "Unsupported DNS record format for " \o cur)

(***************************************************************************)
(* Routing (longest prefix match).                                         *)
(***************************************************************************)
NoRoute == [cidr |-> "", nextHop |-> "", interface |-> "", routerName |-> ""]

\* findBestRoute that stops at the first route containing the address.
findBestRouteFirstMatch(destIp) ==
  LET hits == { i \in 1..Len(routesConfig) :
                  InCidr(destIp, routesConfig[i].cidr) }
  IN  IF hits = {} THEN NoRoute
      ELSE routesConfig[CHOOSE i \in hits : \A j \in hits : i <= j]

\* A comparison that lets a later route of equal prefix replace the best.
BetterPrefixOrEqual(prefix, bestPrefix) == prefix >= bestPrefix

\* prefix > bestPrefix
BetterPrefix(prefix, bestPrefix) == prefix > bestPrefix

\* The for loop of findBestRoute: best[i] is <<bestRoute, bestPrefix>> after
\* the first i routes.
findBestRoute(destIp) ==
  LET routes == routesConfig
      best[i \in 0..Len(routes)] ==
        IF i = 0 THEN <<NoRoute, -1>>
        ELSE LET rt == routes[i]
                 prefix == Number(SplitSlash(rt.cidr)[2])
             IN  IF InCidr(destIp, rt.cidr) /\ BetterPrefix(prefix, best[i - 1][2])
                 THEN <<rt, prefix>>
                 ELSE best[i - 1]
  IN  best[Len(routes)][1]

(***************************************************************************)
(* Firewall.                                                               *)
(***************************************************************************)
\* toUpperCase and toLowerCase on the protocol and action tokens in use.
toUpperCase(s) ==
  CASE s \in {"TCP", "tcp"} -> "TCP"
    [] s \in {"UDP", "udp"} -> "UDP"
    [] s \in {"ANY", "any"} -> "ANY"

toLowerCase(s) ==
  CASE s \in {"deny", "Deny", "DENY"} -> "deny"
    [] s \in {"allow", "Allow", "ALLOW"} -> "allow"

\* ${x} of a field that may be absent.
Interpolate(s) == IF s = "" THEN "undefined" ELSE s

\* The match test with the bounds of the port range left out of the range.
RuleMatchesExclusivePorts(rule, pkt) ==
  LET proto == IF rule.protocol # "" THEN toUpperCase(rule.protocol) ELSE "ANY"
      protocolMatch == proto = "ANY" \/ proto = toUpperCase(pkt.protocol)
      sourceMatch == InCidr(pkt.sourceIp, rule.source)
      port == pkt.destPort
      minPort == rule.destPortRange[1]
      maxPort == rule.destPortRange[2]
      portMatch == port > minPort /\ port < maxPort
  IN  protocolMatch /\ sourceMatch /\ portMatch

\* The match test of applyFirewall for one rule.
RuleMatches(rule, pkt) ==
  LET proto == IF rule.protocol # "" THEN toUpperCase(rule.protocol) ELSE "ANY"
      protocolMatch == proto = "ANY" \/ proto = toUpperCase(pkt.protocol)
      sourceMatch == InCidr(pkt.sourceIp, rule.source)
      port == pkt.destPort
      minPort == rule.destPortRange[1]
      maxPort == rule.destPortRange[2]
      portMatch == port >= minPort /\ port <= maxPort
  IN  protocolMatch /\ sourceMatch /\ portMatch

\* The entries of applyFirewall.
BlockedAction(rule) ==
  "Packet blocked by rule #" \o ToString(rule.id)
  \o " (protocol=" \o Interpolate(rule.protocol)
  \o ", port=" \o ToString(rule.destPortRange[1])
  \o "-" \o ToString(rule.destPortRange[2]) \o ")"

AllowedAction(rule) == "Packet allowed by rule #" \o ToString(rule.id)

\* applyFirewall in which the last matching rule decides.
applyFirewallLastMatch(pkt, tr) ==
  LET rules == firewallConfig
      hits == { i \in 1..Len(rules) : RuleMatches(rules[i], pkt) }
      rule == rules[CHOOSE i \in hits : \A j \in hits : i >= j]
  IN  IF hits = {}
      THEN [ allowed |-> TRUE,
             trace |-> Append(tr, Entry("Firewall",
                                        "No matching rule, default allow")) ]
      ELSE IF toLowerCase(rule.action) = "deny"
      THEN [ allowed |-> FALSE,
             trace |-> Append(tr, Entry("Firewall", BlockedAction(rule))) ]
      ELSE [ allowed |-> TRUE,
             trace |-> Append(tr, Entry("Firewall", AllowedAction(rule))) ]

\* applyFirewall that denies when no rule matches.
applyFirewallDefaultDeny(pkt, tr) ==
  LET rules == firewallConfig
      hits == { i \in 1..Len(rules) : RuleMatches(rules[i], pkt) }
      rule == rules[CHOOSE i \in hits : \A j \in hits : i <= j]
  IN  IF hits = {}
      THEN [ allowed |-> FALSE,
             trace |-> Append(tr, Entry("Firewall",
                                        "No matching rule, default deny")) ]
      ELSE IF toLowerCase(rule.action) = "deny"
      THEN [ allowed |-> FALSE,
             trace |-> Append(tr, Entry("Firewall", BlockedAction(rule))) ]
      ELSE [ allowed |-> TRUE,
             trace |-> Append(tr, Entry("Firewall", AllowedAction(rule))) ]

\* applyFirewall(packet, trace): the value returned and the trace after it.
applyFirewall(pkt, tr) ==
  LET rules == firewallConfig
      Scan[i \in 1..(Len(rules) + 1)] ==
        IF i > Len(rules)
        THEN [ allowed |-> TRUE,
               trace |-> Append(tr, Entry("Firewall",
                                          "No matching rule, default allow")) ]
        ELSE LET rule == rules[i]
             IN  IF RuleMatches(rule, pkt)
                 THEN IF toLowerCase(rule.action) = "deny"
                      THEN [ allowed |-> FALSE,
                             trace |-> Append(tr, Entry("Firewall",
                                                        BlockedAction(rule))) ]
                      ELSE [ allowed |-> TRUE,
                             trace |-> Append(tr, Entry("Firewall",
                                                        AllowedAction(rule))) ]
                 ELSE Scan[i + 1]
  IN  Scan[1]

(***************************************************************************)
(* POST /trace.                                                            *)
(***************************************************************************)
\* /^\d{1,3}(\.\d{1,3}){3}$/.test(destination)
IsIpLiteral(destination) ==
  LET parts == Split(destination)
  IN  Len(parts) = 4 /\ \A i \in 1..4 : Number(parts[i]) # NaN

\* The trace of a literal destination with the notice left out.
AlreadyIpTraceEmpty(destination) == <<>>

\* The trace after the branch for a destination that is already an address.
AlreadyIpTrace(destination) ==
  << Entry("DNS Resolver", "Destination is already an IP: " \o destination) >>

\* The TTL check that lets a TTL of zero through.
TtlExceededBelowZero(pkt) == pkt.ttl < 0

\* The TTL check at the top of the routing loop.
TtlExceeded(pkt) == pkt.ttl <= 0

\* The basic input validation: TRUE when the request is rejected.
Invalid(b) ==
  \/ b.sourceIp = ""
  \/ b.destination = ""
  \/ b.destPort.type # "number"
  \/ b.protocol = ""
  \/ b.ttl.type # "number"

\* The server after the configuration files are loaded.  One of the three
\* files varies over the lists of distinct entries of its universe, up to
\* the bound (for the DNS records, also the chain of two aliases); the other
\* two are the readme's.
Init ==
  /\ \/ /\ dnsRecords \in SeqsUpTo(DnsUniverse, MaxRecords) \cup {ChainDns}
        /\ routesConfig = SampleRoutes
        /\ firewallConfig = SampleRules
     \/ /\ dnsRecords = SampleDns
        /\ routesConfig \in SeqsUpTo(RouteUniverse, MaxRoutes)
        /\ firewallConfig = SampleRules
     \/ /\ dnsRecords = SampleDns
        /\ routesConfig = SampleRoutes
        /\ firewallConfig \in SeqsUpTo(RuleUniverse, MaxRules)
  /\ pc = "idle"
  /\ body = NoBody
  /\ packet = NoPacket
  /\ trace = <<>>
  /\ current = ""
  /\ visited = {}
  /\ currentHop = 0
  /\ route = NoRoute
  /\ allowed = FALSE
  /\ status = 0
  /\ response = <<>>
  /\ first = NoResponse

\* res.json(trace)
Respond(tr) ==
  /\ status' = 200
  /\ response' = tr
  /\ pc' = "done"

\* The handler up to the DNS step: validation, the packet, and the branch on
\* the shape of the destination.
PostTrace ==
  /\ pc = "idle"
  /\ UNCHANGED <<config, visited, currentHop, route, allowed>>
  /\ \E b \in Bodies :
     IF Invalid(b)
     THEN /\ status' = 400
          /\ pc' = "done"
          /\ UNCHANGED <<body, packet, trace, current, response>>
     ELSE LET pkt == [ sourceIp |-> b.sourceIp, destIp |-> "",
                       destPort |-> b.destPort.val, protocol |-> b.protocol,
                       ttl |-> b.ttl.val ]
          IN  IF IsIpLiteral(b.destination)
              THEN /\ packet' = [pkt EXCEPT !.destIp = b.destination]
                   /\ trace' = AlreadyIpTrace(b.destination)
                   /\ pc' = "forward"
                   /\ body' = b
                   /\ UNCHANGED <<current, status, response>>
              ELSE /\ packet' = pkt
                   /\ trace' = <<>>
                   /\ current' = b.destination
                   /\ pc' = "resolve"
                   /\ body' = b
                   /\ UNCHANGED <<status, response>>
  /\ UNCHANGED first

\* One pass of the loop of resolveHostname, and what the handler does when
\* the call returns.
Resolve ==
  /\ pc = "resolve"
  /\ LET r == resolveHostname(body.destination, current, visited, trace)
     IN  /\ trace' = r.trace
         /\ current' = r.current
         /\ visited' = r.visited
         /\ IF ~r.returned
            THEN UNCHANGED <<pc, packet, status, response>>
            ELSE IF r.result = ""
            THEN Respond(r.trace) /\ UNCHANGED packet
            ELSE /\ packet' = [packet EXCEPT !.destIp = r.result]
                 /\ pc' = "forward"
                 /\ UNCHANGED <<status, response>>
  /\ UNCHANGED <<config, body, currentHop, route, allowed>>
  /\ UNCHANGED first

\* A decrement that takes two from the TTL.
DecrementTtlTwice(ttl) == ttl - 2

\* packet.ttl -= 1
DecrementTtl(ttl) == ttl - 1

\* A test of the firewall's verdict that never stops the simulation.
BlockedNever(al) == FALSE

\* if (!allowed) break
Blocked(al) == ~al

\* The routing loop with the route lookup made before the TTL check.
ForwardRouteFirst ==
  /\ pc = "forward"
  /\ LET found == findBestRoute(packet.destIp)
     IN  /\ route' = found
         /\ IF found = NoRoute
            THEN LET tr == Append(trace,
                             Entry("Router-" \o ToString(currentHop),
                                   "No route to host " \o packet.destIp
                                   \o ". Destination unreachable."))
                 IN  /\ trace' = tr
                     /\ Respond(tr)
                     /\ UNCHANGED <<packet, currentHop>>
            ELSE IF TtlExceeded(packet)
            THEN LET tr == Append(trace,
                             Entry("Router-" \o ToString(currentHop),
                                   "Time To Live (TTL) exceeded. Packet dropped."))
                 IN  /\ trace' = tr
                     /\ Respond(tr)
                     /\ UNCHANGED <<packet, currentHop>>
            ELSE /\ packet' = [packet EXCEPT !.ttl = DecrementTtl(packet.ttl)]
                 /\ currentHop' = currentHop + 1
                 /\ trace' = Append(trace,
                      Entry(IF found.routerName # "" THEN found.routerName
                            ELSE "Router-" \o ToString(currentHop + 1),
                            "Forwarded towards " \o packet.destIp
                            \o " via next-hop " \o Interpolate(found.nextHop)
                            \o " on " \o Interpolate(found.interface)
                            \o ", TTL now "
                            \o ToString(DecrementTtl(packet.ttl))))
                 /\ pc' = "firewall"
                 /\ UNCHANGED <<status, response>>
  /\ UNCHANGED <<config, body, current, visited, allowed>>
  /\ UNCHANGED first

\* The routing loop up to the firewall check: TTL, route lookup, forwarding.
Forward ==
  /\ pc = "forward"
  /\ IF TtlExceeded(packet)
     THEN LET tr == Append(trace, Entry("Router-" \o ToString(currentHop),
                      "Time To Live (TTL) exceeded. Packet dropped."))
          IN  /\ trace' = tr
              /\ Respond(tr)
              /\ UNCHANGED <<packet, currentHop, route>>
     ELSE LET found == findBestRoute(packet.destIp)
          IN  /\ route' = found
              /\ IF found = NoRoute
                 THEN LET tr == Append(trace,
                                  Entry("Router-" \o ToString(currentHop),
                                        "No route to host " \o packet.destIp
                                        \o ". Destination unreachable."))
                      IN  /\ trace' = tr
                          /\ Respond(tr)
                          /\ UNCHANGED <<packet, currentHop>>
                 ELSE /\ packet' = [packet EXCEPT !.ttl = DecrementTtl(packet.ttl)]
                      /\ currentHop' = currentHop + 1
                      /\ trace' = Append(trace,
                           Entry(IF found.routerName # "" THEN found.routerName
                                 ELSE "Router-" \o ToString(currentHop + 1),
                                 "Forwarded towards " \o packet.destIp
                                 \o " via next-hop " \o Interpolate(found.nextHop)
                                 \o " on " \o Interpolate(found.interface)
                                 \o ", TTL now "
                                 \o ToString(DecrementTtl(packet.ttl))))
                      /\ pc' = "firewall"
                      /\ UNCHANGED <<status, response>>
  /\ UNCHANGED <<config, body, current, visited, allowed>>
  /\ UNCHANGED first

\* The firewall check at this hop.
Firewall ==
  /\ pc = "firewall"
  /\ LET r == applyFirewall(packet, trace)
     IN  /\ allowed' = r.allowed
         /\ trace' = r.trace
  /\ pc' = "checked"
  /\ UNCHANGED <<config, body, packet, current, visited, currentHop, route,
                 status, response>>
  /\ UNCHANGED first

\* After the firewall, with the push of the delivery entry left out.
DeliverNoEntry ==
  /\ pc = "checked"
  /\ Respond(trace)
  /\ UNCHANGED <<config, body, packet, trace, current, visited, currentHop,
                 route, allowed>>
  /\ UNCHANGED first

\* After the firewall: stop when blocked, deliver otherwise.
Deliver ==
  /\ pc = "checked"
  /\ IF Blocked(allowed)
     THEN Respond(trace) /\ UNCHANGED trace
     ELSE LET tr == Append(trace, Entry("Destination Host",
                      "Packet delivered to " \o packet.destIp \o ":"
                      \o ToString(packet.destPort) \o " over " \o packet.protocol))
          IN  trace' = tr /\ Respond(tr)
  /\ UNCHANGED <<config, body, packet, current, visited, currentHop, route,
                 allowed>>
  /\ UNCHANGED first

\* The handler's locals with a visited set that outlives the request.
ResetKeepVisited ==
  /\ pc = "done"
  /\ pc' = "idle"
  /\ body' = NoBody
  /\ packet' = NoPacket
  /\ trace' = <<>>
  /\ current' = ""
  /\ currentHop' = 0
  /\ route' = NoRoute
  /\ allowed' = FALSE
  /\ status' = 0
  /\ response' = <<>>
  /\ UNCHANGED <<config, visited>>

\* The handler has returned: its locals (trace, packet, currentHop, route,
\* allowed, and current and visited of resolveHostname) are gone, and the
\* next call declares them anew.
Reset ==
  /\ pc = "done"
  /\ pc' = "idle"
  /\ body' = NoBody
  /\ packet' = NoPacket
  /\ trace' = <<>>
  /\ current' = ""
  /\ visited' = {}
  /\ currentHop' = 0
  /\ route' = NoRoute
  /\ allowed' = FALSE
  /\ status' = 0
  /\ response' = <<>>
  /\ UNCHANGED config

\* The server takes the next request.
NextRequest ==
  /\ Reset
  /\ UNCHANGED first

\* The client keeps the request and the trace returned for it, once, and
\* the server takes the next request.
Remember ==
  /\ status = 200
  /\ first = NoResponse
  /\ first' = [ body |-> body, response |-> response ]
  /\ Reset

Next ==
  \/ PostTrace
  \/ Resolve
  \/ Forward
  \/ Firewall
  \/ Deliver
  \/ NextRequest

Spec == Init /\ [][Next]_vars

(***************************************************************************)
(* The server with a client that keeps one of the traces it was sent and    *)
(* goes on sending requests, the same one among them.                       *)
(***************************************************************************)
\* Two names aliased to each other.
LoopDns ==
  << Rec([name |-> "example.com", cname |-> "www.example.com"]),
     Rec([type |-> "CNAME", name |-> "www.example.com", alias |-> "example.com"]) >>

InitRepeat ==
  /\ dnsRecords \in {SampleDns, LoopDns}
  /\ routesConfig = SampleRoutes
  /\ firewallConfig = SampleRules
  /\ pc = "idle"
  /\ body = NoBody
  /\ packet = NoPacket
  /\ trace = <<>>
  /\ current = ""
  /\ visited = {}
  /\ currentHop = 0
  /\ route = NoRoute
  /\ allowed = FALSE
  /\ status = 0
  /\ response = <<>>
  /\ first = NoResponse

NextRepeat ==
  \/ PostTrace
  \/ Resolve
  \/ Forward
  \/ Firewall
  \/ Deliver
  \/ NextRequest
  \/ Remember

SpecRepeat == InitRepeat /\ [][NextRepeat]_vars

(***************************************************************************)
(* ipInCidr on its own: every address of the model against every network   *)
(* and prefix length, applied as applyFirewall applies it to the source of  *)
(* a packet and the source of a rule.                                       *)
(***************************************************************************)
InitCidr ==
  /\ dnsRecords = <<>>
  /\ routesConfig = <<>>
  /\ \E net \in Networks :
       firewallConfig = << [ id |-> 1, action |-> "allow", protocol |-> "",
                             source |-> net, destPortRange |-> <<0, 65535>> ] >>
  /\ \E q \in QuadParts : packet = [NoPacket EXCEPT !.sourceIp = Join(q)]
  /\ pc = "cidr"
  /\ body = NoBody
  /\ trace = <<>>
  /\ current = ""
  /\ visited = {}
  /\ currentHop = 0
  /\ route = NoRoute
  /\ allowed = FALSE
  /\ status = 0
  /\ response = <<>>
  /\ first = NoResponse

\* const sourceMatch = ipInCidr(packet.sourceIp, rule.source)
SourceMatch ==
  /\ pc = "cidr"
  /\ allowed' = ipInCidr(packet.sourceIp, firewallConfig[1].source)
  /\ pc' = "cidrDone"
  /\ UNCHANGED <<config, body, packet, trace, current, visited, currentHop,
                 route, status, response>>
  /\ UNCHANGED first

NextCidr == SourceMatch

SpecCidr == InitCidr /\ [][NextCidr]_vars

TypeOK ==
  /\ pc \in {"idle", "resolve", "forward", "firewall", "checked", "done"}
  /\ status \in {0, 200, 400}

(***************************************************************************)
(* Properties.                                                             *)
(***************************************************************************)
Last(s) == s[Len(s)]

Front(s) == SubSeq(s, 1, Len(s) - 1)

Locations(tr) == { tr[i].location : i \in 1..Len(tr) }

IsDeny(rule) == rule.action \in {"deny", "Deny", "DENY"}

\* The rules of the list that match the packet, by position.
MatchingRules == { i \in 1..Len(firewallConfig) :
                     RuleMatches(firewallConfig[i], packet) }

\* C1: when applyFirewall has run, the value it returned and the one Firewall
\* entry it appended are those of the first rule in declaration order that
\* matches the packet, whatever the action of later matching rules.
C1_FirstMatchDecides ==
  pc = "checked" =>
    /\ trace # <<>>
    /\ Last(trace).location = "Firewall"
    /\ "Firewall" \notin Locations(Front(trace))
    /\ \A i \in MatchingRules :
         (\A j \in MatchingRules : i <= j) =>
           /\ allowed = ~IsDeny(firewallConfig[i])
           /\ Last(trace).action =
                IF IsDeny(firewallConfig[i])
                THEN "Packet blocked by rule #" \o ToString(firewallConfig[i].id)
                     \o " (protocol="
                     \o (IF firewallConfig[i].protocol = "" THEN "undefined"
                         ELSE firewallConfig[i].protocol)
                     \o ", port=" \o ToString(firewallConfig[i].destPortRange[1])
                     \o "-" \o ToString(firewallConfig[i].destPortRange[2]) \o ")"
                ELSE "Packet allowed by rule #" \o ToString(firewallConfig[i].id)

\* C1 witness: the firewall has run on a packet that two rules with opposite
\* actions match, the allowing one declared first.
C1_Witness ==
  /\ pc = "checked"
  /\ \E i, j \in MatchingRules :
       i < j /\ ~IsDeny(firewallConfig[i]) /\ IsDeny(firewallConfig[j])
  /\ allowed

PrefixLength(r) == Number(SplitSlash(r.cidr)[2])

\* The routes of the list whose cidr contains the destination, by position.
ContainingRoutes == { i \in 1..Len(routesConfig) :
                        InCidr(packet.destIp, routesConfig[i].cidr) }

\* The handler has called findBestRoute for this request.
RouteLookedUp ==
  /\ pc \in {"firewall", "checked", "done"}
  /\ status # 400
  /\ packet.destIp # ""
  /\ body.ttl.val > 0

\* C2: the route findBestRoute returned contains the destination and no
\* route containing the destination has a longer prefix; it is never the
\* default route when a more specific route contains the destination; it is
\* none exactly when no route contains the destination.
C2_LongestPrefix ==
  RouteLookedUp =>
    /\ (route = NoRoute) <=> (ContainingRoutes = {})
    /\ route # NoRoute =>
         /\ \E i \in ContainingRoutes : route = routesConfig[i]
         /\ \A j \in ContainingRoutes :
              PrefixLength(route) >= PrefixLength(routesConfig[j])
         /\ (\E j \in ContainingRoutes : routesConfig[j].cidr # "0.0.0.0/0")
              => route.cidr # "0.0.0.0/0"

\* C2 witness: the default route is declared before a more specific route,
\* both contain the destination, and the specific one was returned.
C2_Witness ==
  /\ RouteLookedUp
  /\ \E i, j \in ContainingRoutes :
       /\ i < j
       /\ routesConfig[i].cidr = "0.0.0.0/0"
       /\ routesConfig[j].cidr = "10.0.0.0/24"
       /\ route = routesConfig[j]

(***************************************************************************)
(* Name records as the data model sees them: what a record is named, and   *)
(* whether it is an Address or an Alias record.                            *)
(***************************************************************************)
Names(r) == {r.name, r.hostname, r.host} \ {""}

AddressOf(r) ==
  IF r.address # "" THEN r.address ELSE IF r.ip # "" THEN r.ip ELSE r.value

AliasOf(r) ==
  IF r.alias # "" THEN r.alias ELSE IF r.target # "" THEN r.target ELSE r.cname

IsAddressRecord(r) == r.type \in {"A", ""} /\ AddressOf(r) # ""

IsAliasRecord(r) ==
  r.type \in {"CNAME", ""} /\ AddressOf(r) = "" /\ AliasOf(r) # ""

\* The position of the first record declared for the name h, 0 if none.
FirstNamed(h) ==
  LET hits == { i \in 1..Len(dnsRecords) : h \in Names(dnsRecords[i]) }
  IN  IF hits = {} THEN 0 ELSE CHOOSE i \in hits : \A j \in hits : i <= j

\* The names h0, h1, ... reached from h by following Alias records, up to
\* the first name that is not aliased to a new name.
RECURSIVE AliasChain(_, _)
AliasChain(h, seen) ==
  LET i == FirstNamed(h)
  IN  IF /\ i # 0
         /\ IsAliasRecord(dnsRecords[i])
         /\ AliasOf(dnsRecords[i]) \notin seen \cup {h}
      THEN <<h>> \o AliasChain(AliasOf(dnsRecords[i]), seen \cup {h})
      ELSE <<h>>

\* The chain from h ends at a name that has an Address record.
EndsInAddress(h) ==
  LET i == FirstNamed(Last(AliasChain(h, {})))
  IN  i # 0 /\ IsAddressRecord(dnsRecords[i])

\* The chain from h ends at a name aliased to a name already on the chain.
EndsInLoop(h) ==
  LET i == FirstNamed(Last(AliasChain(h, {})))
  IN  i # 0 /\ IsAliasRecord(dnsRecords[i])

\* The handler has called resolveHostname for this request and the call has
\* returned; packet.destIp holds what it returned, "" for null.
ResolverReturned ==
  /\ pc \in {"forward", "firewall", "checked", "done"}
  /\ status # 400
  /\ ~IsIpLiteral(body.destination)

DnsEntries(tr) == SelectSeq(tr, LAMBDA e : e.location = "DNS Resolver")

\* C3: on an alias chain h0 -> ... -> hn of distinct names whose last name
\* has an Address record with address a, the resolver's entries are the n
\* entries "CNAME: hi -> hi+1" in chain order followed by the one entry
\* "Resolved h0 to a", and the resolver returns a.
C3_ChainTrace ==
  (ResolverReturned /\ EndsInAddress(body.destination)) =>
    LET chain == AliasChain(body.destination, {})
        n == Len(chain) - 1
        a == AddressOf(dnsRecords[FirstNamed(chain[n + 1])])
    IN  /\ Len(trace) >= n + 1
        /\ \A i \in 1..n :
             trace[i] = Entry("DNS Resolver",
                              "CNAME: " \o chain[i] \o " → " \o chain[i + 1])
        /\ trace[n + 1] = Entry("DNS Resolver",
                                "Resolved " \o chain[1] \o " to " \o a)
        /\ Len(DnsEntries(trace)) = n + 1
        /\ packet.destIp = a

\* C3 witness: the resolver has returned on a chain of two alias hops.
C3_Witness ==
  /\ ResolverReturned
  /\ EndsInAddress(body.destination)
  /\ Len(AliasChain(body.destination, {})) = 3
  /\ packet.destIp = "10.0.0.10"

\* C4: when the chain from the destination revisits a name before reaching
\* an Address record, the returned trace ends with the entry "CNAME loop
\* detected for x", x the first name to repeat, the resolver has returned
\* null, and the trace has no entry from a router, the firewall or the
\* destination host.
C4_LoopEndsTrace ==
  (pc = "done" /\ ResolverReturned /\ EndsInLoop(body.destination)) =>
    LET chain == AliasChain(body.destination, {})
        x == AliasOf(dnsRecords[FirstNamed(Last(chain))])
    IN  /\ response = trace
        /\ Last(response) = Entry("DNS Resolver", "CNAME loop detected for " \o x)
        /\ Locations(response) = {"DNS Resolver"}
        /\ packet.destIp = ""

\* C4 witness: a returned trace that ends with a loop on a name other than
\* the name the request asked for.
C4_Witness ==
  /\ pc = "done"
  /\ ResolverReturned
  /\ EndsInLoop(body.destination)
  /\ body.destination = "mail.example.com"
  /\ Last(response).action = "CNAME loop detected for www.example.com"

\* C5: a request for a name that no DNS record is declared for returns the
\* trace of the single entry "NXDOMAIN: <name> not found" of the DNS
\* resolver.
C5_Nxdomain ==
  (pc = "done" /\ ResolverReturned /\ FirstNamed(body.destination) = 0) =>
    response = << Entry("DNS Resolver",
                        "NXDOMAIN: " \o body.destination \o " not found") >>

\* C5 witness: the single NXDOMAIN entry was returned under a configuration
\* that has records for other names.
C5_Witness ==
  /\ pc = "done"
  /\ ResolverReturned
  /\ FirstNamed(body.destination) = 0
  /\ dnsRecords # <<>>
  /\ Len(response) = 1

\* C6 as claimed: for every configured Address record, resolving one of its
\* names returns its address and the last resolver entry states it.
C6_EveryAddressRecord ==
  ResolverReturned =>
    \A i \in 1..Len(dnsRecords) :
      (IsAddressRecord(dnsRecords[i]) /\ body.destination \in Names(dnsRecords[i]))
        => /\ packet.destIp = AddressOf(dnsRecords[i])
           /\ Last(DnsEntries(trace)).action =
                "Resolved " \o body.destination \o " to "
                \o AddressOf(dnsRecords[i])

\* C6 amended: for every Address record that is the first record declared
\* for the name, resolving that name returns its address and the last
\* resolver entry states it.
C6_FirstAddressRecord ==
  ResolverReturned =>
    \A i \in 1..Len(dnsRecords) :
      (IsAddressRecord(dnsRecords[i]) /\ i = FirstNamed(body.destination))
        => /\ packet.destIp = AddressOf(dnsRecords[i])
           /\ Last(DnsEntries(trace)).action =
                "Resolved " \o body.destination \o " to "
                \o AddressOf(dnsRecords[i])

\* C6 witness: the name has two records, the first an Address record, and
\* the resolver returned the address of the first.
C6_Witness ==
  /\ ResolverReturned
  /\ \E i, j \in 1..Len(dnsRecords) :
       /\ i < j
       /\ i = FirstNamed(body.destination)
       /\ body.destination \in Names(dnsRecords[j])
       /\ IsAddressRecord(dnsRecords[i])
       /\ packet.destIp = AddressOf(dnsRecords[i])

TtlExceededEntry(hop) ==
  Entry("Router-" \o ToString(hop), "Time To Live (TTL) exceeded. Packet dropped.")

\* C7: a request with ttl = 0 whose destination is an address or resolves to
\* one returns its DNS Resolver entries followed by exactly one entry, TTL
\* exceeded at Router-0, and its packet never reaches the firewall.
C7_TtlZero ==
  /\ (pc = "done" /\ status = 200 /\ body.ttl = Num(0) /\ packet.destIp # "") =>
       /\ DnsEntries(response) # <<>>
       /\ response = DnsEntries(response) \o <<TtlExceededEntry(0)>>
  /\ (pc \in {"firewall", "checked"}) => body.ttl # Num(0)

\* C7 witness: a name resolved through an alias, then dropped for ttl = 0.
C7_Witness ==
  /\ pc = "done"
  /\ status = 200
  /\ body.ttl = Num(0)
  /\ body.destination = "www.example.com"
  /\ Len(response) = 3

\* C8 as claimed: a packet whose TTL is zero when the request ends, by the
\* request's ttl or by the decrement of the forwarding step, was dropped
\* with a TTL-exceeded entry and was not delivered.
C8_ZeroTtlDropped ==
  (pc = "done" /\ status = 200 /\ packet.destIp # "" /\ packet.ttl = 0) =>
    /\ \E i \in 1..Len(response) :
         response[i].action = "Time To Live (TTL) exceeded. Packet dropped."
    /\ "Destination Host" \notin Locations(response)

\* C9: when no rule of the list matches the packet, applyFirewall returns
\* allow and appends the one entry "No matching rule, default allow".
C9_DefaultAllow ==
  (pc = "checked" /\ MatchingRules = {}) =>
    /\ allowed
    /\ trace # <<>>
    /\ Last(trace) = Entry("Firewall", "No matching rule, default allow")
    /\ "Firewall" \notin Locations(Front(trace))

\* C9 witness: the firewall scanned a list of two rules, neither matching.
C9_Witness ==
  /\ pc = "checked"
  /\ Len(firewallConfig) = 2
  /\ MatchingRules = {}
  /\ allowed

DeliveredEntry ==
  Entry("Destination Host",
        "Packet delivered to " \o packet.destIp \o ":"
        \o ToString(packet.destPort) \o " over " \o packet.protocol)

NoRouteEntry(hop) ==
  Entry("Router-" \o ToString(hop),
        "No route to host " \o packet.destIp \o ". Destination unreachable.")

BlockedEntry(rule) ==
  Entry("Firewall",
        "Packet blocked by rule #" \o ToString(rule.id) \o " (protocol="
        \o (IF rule.protocol = "" THEN "undefined" ELSE rule.protocol)
        \o ", port=" \o ToString(rule.destPortRange[1])
        \o "-" \o ToString(rule.destPortRange[2]) \o ")")

\* The outcomes of the error taxonomy.
IsTaxonomyOutcome(e) ==
  \/ e = DeliveredEntry
  \/ \E h \in Strings : e = Entry("DNS Resolver", "NXDOMAIN: " \o h \o " not found")
  \/ \E h \in Strings : e = Entry("DNS Resolver", "CNAME loop detected for " \o h)
  \/ \E h \in Strings :
       e = Entry("DNS Resolver", "Unsupported DNS record format for " \o h)
  \/ e = NoRouteEntry(0)
  \/ e = TtlExceededEntry(0)
  \/ \E i \in 1..Len(firewallConfig) : e = BlockedEntry(firewallConfig[i])

\* The two outcomes of the resolver that the taxonomy does not name.
IsMalformedOutcome(e) ==
  \/ \E h \in Strings : e = Entry("DNS Resolver", "Malformed A record for " \o h)
  \/ \E h \in Strings : e = Entry("DNS Resolver", "Malformed CNAME record for " \o h)

OrUndefined(s) == IF s = "" THEN "undefined" ELSE s

\* The entry of a hop over route r that leaves the packet with TTL t.
ForwardedEntry(r, t) ==
  Entry(IF r.routerName # "" THEN r.routerName ELSE "Router-1",
        "Forwarded towards " \o packet.destIp \o " via next-hop "
        \o OrUndefined(r.nextHop) \o " on " \o OrUndefined(r.interface)
        \o ", TTL now " \o ToString(t))

IsForwardedEntry(e) ==
  /\ e.location \notin {"DNS Resolver", "Firewall", "Destination Host"}
  /\ \E i \in 1..Len(routesConfig), t \in {packet.ttl, body.ttl.val - 1} :
       e = ForwardedEntry(routesConfig[i], t)

IsBlockEntry(e) ==
  \E i \in 1..Len(firewallConfig) : e = BlockedEntry(firewallConfig[i])

\* 1 resolver, 2 router, 3 firewall, 4 destination host, 0 anything else.
Kind(e) ==
  CASE e.location = "DNS Resolver" -> 1
    [] e.location = "Firewall" -> 3
    [] e.location = "Destination Host" -> 4
    [] IsForwardedEntry(e) \/ e = NoRouteEntry(0) \/ e = TtlExceededEntry(0) -> 2
    [] OTHER -> 0

\* C12: a returned trace is one or more DNS Resolver entries, then at most
\* one router entry, then at most one Firewall entry, then at most one
\* Destination Host entry; a Firewall entry stands directly after a
\* Forwarded entry, a delivery entry directly after a Firewall entry that is
\* not a block, and a trace with a block entry has no delivery entry.
C12_TraceShape ==
  (pc = "done" /\ status = 200) =>
    /\ Len(response) >= 1
    /\ Kind(response[1]) = 1
    /\ \A i \in 1..Len(response) : Kind(response[i]) # 0
    /\ \A i, j \in 1..Len(response) :
         i < j => \/ Kind(response[i]) < Kind(response[j])
                  \/ Kind(response[i]) = 1 /\ Kind(response[j]) = 1
    /\ \A i \in 1..Len(response) :
         Kind(response[i]) = 3 => i > 1 /\ IsForwardedEntry(response[i - 1])
    /\ \A i \in 1..Len(response) :
         Kind(response[i]) = 4 =>
           /\ response[i] = DeliveredEntry
           /\ i > 1
           /\ Kind(response[i - 1]) = 3
           /\ ~IsBlockEntry(response[i - 1])
    /\ (\E i \in 1..Len(response) : IsBlockEntry(response[i])) =>
         \A j \in 1..Len(response) : Kind(response[j]) # 4

\* C12 witness: a returned trace of two resolver entries, a hop, a firewall
\* entry and the delivery; and the trace of a blocked packet is reachable too
\* (C1 witness).
C12_Witness ==
  /\ pc = "done"
  /\ status = 200
  /\ Len(response) = 5
  /\ Kind(response[2]) = 1
  /\ Kind(response[3]) = 2
  /\ Kind(response[4]) = 3
  /\ Kind(response[5]) = 4

(***************************************************************************)
(* Records declared as aliases.                                            *)
(***************************************************************************)
\* The resolver has returned an address for a name.
ResolverReturnedAddress ==
  /\ ResolverReturned
  /\ packet.destIp # ""

\* C13: the resolver never returns an address out of a record declared as
\* an alias (type CNAME): such a record is followed to its target, whichever
\* field carries the target, value included.
C13_AliasNeverReturned ==
  ResolverReturnedAddress =>
    LET i == FirstNamed(current)
    IN  ~(i # 0 /\ dnsRecords[i].type = "CNAME")

(***************************************************************************)
(* Termination of the resolver.                                            *)
(***************************************************************************)
ConfiguredNames == UNION { Names(dnsRecords[i]) : i \in 1..Len(dnsRecords) }

\* C14: resolveHostname makes at most (number of distinct configured names
\* + 1) passes of its loop.  Every pass adds one name to visited or detects
\* the loop, and appends one entry: before a pass the entries are as many as
\* the names visited and at most the configured names, and when the resolver
\* has returned it has written at most one entry more than there are
\* configured names.
C14_BoundedResolution ==
  /\ pc = "resolve" =>
       /\ Len(trace) = Cardinality(visited)
       /\ Cardinality(visited) <= Cardinality(ConfiguredNames)
  /\ ResolverReturned =>
       /\ Len(DnsEntries(trace)) <= Cardinality(ConfiguredNames) + 1
       /\ Cardinality(visited) <= Cardinality(ConfiguredNames) + 1

\* C14 witness: a name aliased to itself is the only configured name; the
\* resolver returns after two passes, the second detecting the loop.
C14_Witness ==
  /\ pc = "done"
  /\ status = 200
  /\ Cardinality(ConfiguredNames) = 1
  /\ trace = << Entry("DNS Resolver", "CNAME: www.example.com → www.example.com"),
                Entry("DNS Resolver", "CNAME loop detected for www.example.com") >>

(***************************************************************************)
(* Routes of equal prefix length.                                          *)
(***************************************************************************)
\* The containing routes of the greatest prefix length, by position.
LongestContaining ==
  { i \in ContainingRoutes :
      \A j \in ContainingRoutes :
        PrefixLength(routesConfig[i]) >= PrefixLength(routesConfig[j]) }

\* C15: when routes containing the destination share the greatest prefix
\* length, findBestRoute returns the one declared earliest among them.
C15_EarliestOfEqualPrefix ==
  (RouteLookedUp /\ ContainingRoutes # {}) =>
    \E i \in LongestContaining :
      /\ \A j \in LongestContaining : i <= j
      /\ route = routesConfig[i]

\* C15 witness: two routes for 10.0.0.0/24 contain the destination and the
\* one declared first was returned.
C15_Witness ==
  /\ RouteLookedUp
  /\ Cardinality(LongestContaining) = 2
  /\ \E i, j \in LongestContaining : i < j /\ route = routesConfig[i]

(***************************************************************************)
(* One hop per request.                                                    *)
(***************************************************************************)
ForwardedEntries(tr) == SelectSeq(tr, IsForwardedEntry)

\* The handler is at work on a request it has accepted.
Handling ==
  /\ pc \in {"resolve", "forward", "firewall", "checked", "done"}
  /\ status # 400

\* C16: a trace has at most one Forwarded entry.  With the entry the TTL is
\* the request's ttl less 1 and the entry reports that TTL at the route's
\* routerName, or at Router-1 when the route has none; without it the TTL is
\* the request's ttl.  The top of the forwarding loop is reached once only:
\* no Forwarded entry has been written there, and the firewall is reached
\* with exactly one.
C16_OneHop ==
  Handling =>
    LET fw == ForwardedEntries(trace)
    IN  /\ Len(fw) <= 1
        /\ Len(fw) = 1 =>
             /\ packet.ttl = body.ttl.val - 1
             /\ currentHop = 1
             /\ route # NoRoute
             /\ fw[1] = ForwardedEntry(route, body.ttl.val - 1)
             /\ fw[1].location =
                  (IF route.routerName = "" THEN "Router-1" ELSE route.routerName)
        /\ Len(fw) = 0 =>
             /\ packet.ttl = body.ttl.val
             /\ currentHop = 0
        /\ pc \in {"resolve", "forward"} => Len(fw) = 0
        /\ pc \in {"firewall", "checked"} => Len(fw) = 1

\* C16 witness: a packet sent with ttl 2 over a route with no routerName is
\* delivered with TTL 1 after its one hop at Router-1.
C16_Witness ==
  /\ pc = "done"
  /\ status = 200
  /\ body.ttl = Num(2)
  /\ packet.ttl = 1
  /\ route # NoRoute
  /\ route.routerName = ""
  /\ Len(ForwardedEntries(response)) = 1
  /\ ForwardedEntries(response)[1].location = "Router-1"
  /\ Last(response) = DeliveredEntry

(***************************************************************************)
(* The TTL check and the route lookup.                                     *)
(***************************************************************************)
\* The handler has returned a trace after reaching the forwarding loop.
ForwardingDone ==
  /\ pc = "done"
  /\ status = 200
  /\ packet.destIp # ""

HasEntry(tr, e) == \E i \in 1..Len(tr) : tr[i] = e

\* C17: a packet with ttl <= 0 ends with the TTL-exceeded entry and has no
\* "No route to host" entry, whether or not a route covers the destination;
\* a "No route to host" entry is written only for ttl >= 1, and then the TTL
\* is the request's ttl and the trace has no Firewall entry.
C17_TtlBeforeRoute ==
  ForwardingDone =>
    /\ body.ttl.val <= 0 =>
         /\ Last(response) = TtlExceededEntry(0)
         /\ ~HasEntry(response, NoRouteEntry(0))
    /\ HasEntry(response, NoRouteEntry(0)) =>
         /\ body.ttl.val >= 1
         /\ packet.ttl = body.ttl.val
         /\ \A i \in 1..Len(response) : response[i].location # "Firewall"

\* C17 witness: a packet with ttl 0 for an address no route covers is
\* dropped for its TTL.
C17_Witness ==
  /\ ForwardingDone
  /\ body.ttl = Num(0)
  /\ routesConfig # <<>>
  /\ ContainingRoutes = {}
  /\ Last(response) = TtlExceededEntry(0)

(***************************************************************************)
(* Addresses as 32 bits, and the match of a rule as the spec states it.    *)
(***************************************************************************)
\* Bit k of a dotted quad, k = 1 for the top bit of the first octet.
BitOf(ip, k) ==
  LET octet == Number(Split(ip)[((k - 1) \div 8) + 1])
  IN  (octet \div (2 ^ (7 - ((k - 1) % 8)))) % 2

TopBitsEqual(a, b, p) == \A k \in 1..p : BitOf(a, k) = BitOf(b, k)

InNetwork(ip, cidr) ==
  LET c == SplitSlash(cidr)
  IN  TopBitsEqual(ip, c[1], Number(c[2]))

\* Two protocol tokens that differ in case only.
SameProtocol(a, b) ==
  \E class \in { {"TCP", "tcp"}, {"UDP", "udp"}, {"ANY", "any"} } :
    a \in class /\ b \in class

RuleApplies(rule, pkt) ==
  /\ \/ rule.protocol = ""
     \/ SameProtocol(rule.protocol, "ANY")
     \/ SameProtocol(rule.protocol, pkt.protocol)
  /\ InNetwork(pkt.sourceIp, rule.source)
  /\ rule.destPortRange[1] <= pkt.destPort
  /\ pkt.destPort <= rule.destPortRange[2]

ApplyingRules == { i \in 1..Len(firewallConfig) :
                     RuleApplies(firewallConfig[i], packet) }

\* C18: applyFirewall takes a rule to match exactly when the rule's protocol
\* is absent, ANY or the packet's protocol up to case, the packet's source
\* is in the rule's source network, and the destination port is within the
\* rule's port range, bounds included; the Firewall entry written is that
\* of the first such rule, whatever the destination address.
C18_MatchConditions ==
  pc = "checked" =>
    /\ \A i \in 1..Len(firewallConfig) :
         RuleMatches(firewallConfig[i], packet)
           <=> RuleApplies(firewallConfig[i], packet)
    /\ IF ApplyingRules = {}
       THEN Last(trace) = Entry("Firewall", "No matching rule, default allow")
       ELSE LET i == CHOOSE i \in ApplyingRules : \A j \in ApplyingRules : i <= j
                rule == firewallConfig[i]
            IN  Last(trace) =
                  IF IsDeny(rule) THEN BlockedEntry(rule)
                  ELSE Entry("Firewall",
                             "Packet allowed by rule #" \o ToString(rule.id))

\* C18 witness: a udp packet to port 80, on the lower bound of the range of
\* a rule for protocol "any" whose source network holds the packet's source,
\* was blocked by that rule.
C18_Witness ==
  /\ pc = "checked"
  /\ packet.protocol = "udp"
  /\ packet.destPort = 80
  /\ ~allowed
  /\ \E i \in ApplyingRules :
       /\ firewallConfig[i].id = 3
       /\ Last(trace) = BlockedEntry(firewallConfig[i])

(***************************************************************************)
(* Containment of an address in a network.                                 *)
(***************************************************************************)
\* The word whose top p bits are set and whose other bits are clear.
TopBitsSet(p) ==
  [ i \in 1..4 |->
      LET n == IF p >= 8 * i THEN 8
               ELSE IF p <= 8 * (i - 1) THEN 0
               ELSE p - 8 * (i - 1)
      IN  256 - 2 ^ (8 - n) ]

\* The address, the network and the prefix length ipInCidr was given.
CidrAddress == packet.sourceIp

CidrNetwork == SplitSlash(firewallConfig[1].source)[1]

CidrPrefix == Number(SplitSlash(firewallConfig[1].source)[2])

\* C19: ipInCidr(address, network/prefix) is true exactly when the top
\* prefix bits of the address and of the network are equal; prefix 0 holds
\* every address, prefix 32 the identical address only; and
\* cidrToMask(prefix) has exactly the top prefix bits set.
C19_TopBits ==
  pc = "cidrDone" =>
    /\ allowed <=> TopBitsEqual(CidrAddress, CidrNetwork, CidrPrefix)
    /\ CidrPrefix = 0 => allowed
    /\ CidrPrefix = 32 => (allowed <=> CidrAddress = CidrNetwork)
    /\ cidrToMask(CidrPrefix) = TopBitsSet(CidrPrefix)

\* C19 witness: 192.168.1.50 is found in 128.0.0.0/1, on the top bit alone.
C19_Witness ==
  /\ pc = "cidrDone"
  /\ CidrAddress = "192.168.1.50"
  /\ CidrNetwork = "128.0.0.0"
  /\ CidrPrefix = 1
  /\ allowed

(***************************************************************************)
(* Requests are independent.                                               *)
(***************************************************************************)
\* The request in hand is the one whose trace the client has kept.
SameRequestAgain ==
  /\ pc = "done"
  /\ status = 200
  /\ first # NoResponse
  /\ first.body = body

\* C20: no step of the handler changes the DNS records, the route list or
\* the rule list, and a request that is sent again, after any requests in
\* between, is returned the trace it was returned before.
C20_SameRequestSameTrace ==
  /\ [](SameRequestAgain => response = first.response)
  /\ [][config' = config]_vars

\* C20 witness: the request for www.example.com is answered a second time
\* with the trace of its alias, its hop, the firewall and the delivery.
C20_Witness ==
  /\ SameRequestAgain
  /\ body.destination = "www.example.com"
  /\ Len(response) = 5
  /\ response = first.response

====
